---- MODULE Spec2Model ----
(***************************************************************************)
(* A model of lapyx's argument parser and key/value object model           *)
(* (src/src/lapyx/parsing.py): the top-level splitter, Arg.parse_args,     *)
(* KeyVal / Arg construction, Arg.update / KeyVal.update_value, removal    *)
(* and serialization.                                                      *)
(*                                                                         *)
(* A string is a sequence of one-character strings.  Python values are     *)
(* records tagged with their type.  Immediate values:                      *)
(*   None    [type |-> "None"]                                             *)
(*   str     [type |-> "str", s |-> <<chars>>]                             *)
(*   int     [type |-> "int", n |-> i]                                     *)
(* Objects live in a heap, a sequence of records; an object is referred to *)
(* by [type |-> its type, id |-> its position in the heap]:                *)
(*   KeyVal  [type |-> "KeyVal", key |-> <<chars>>, value |-> None or ref] *)
(*   Arg     [type |-> "Arg", args |-> <<values>>]       (the list _args)  *)
(*   list    [type |-> "list", items |-> <<values>>]                       *)
(* so that two places can hold the same object, as in Python.  A call      *)
(* returns [err |-> "none" or the exception's name, heap |-> the heap as   *)
(* the call left it, val |-> its result].                                  *)
(***************************************************************************)
EXTENDS Integers, Sequences, FiniteSets, TLC

VARIABLES heap, self, old, call, exc, steps, text, out

vars == <<heap, self, old, call, exc, steps, text, out>>

-----------------------------------------------------------------------------
(* Python values *)

None == [type |-> "None"]
PyStr(s) == [type |-> "str", s |-> s]
PyInt(i) == [type |-> "int", n |-> i]
Ref(t, i) == [type |-> t, id |-> i]

\* value trees: objects written out by value, without identity
PyList(items) == [type |-> "list", items |-> items]
MkKeyVal(key, value) == [type |-> "KeyVal", key |-> key, value |-> value]
MkArg(a) == [type |-> "Arg", args |-> a]

IsObject(v) == v.type \in {"KeyVal", "Arg", "list"}

Ok(h, v) == [err |-> "none", heap |-> h, val |-> v]
Raise(e, h) == [err |-> e, heap |-> h, val |-> None]

\* the result of a call that reads no object: [err, val]
Return(v) == [err |-> "none", val |-> v]
Throw(e, v) == [err |-> e, val |-> v]

\* a new object: the heap with it, and the reference to it
New(h, obj) == Ok(Append(h, obj), Ref(obj.type, Len(h) + 1))

\* r is the result of a call: its exception propagates, otherwise the caller
\* goes on with K(the heap the call left, what it returned); the call is made
\* once, x being its result
Try(r, K(_, _)) ==
    CHOOSE y \in {IF x.err # "none" THEN Raise(x.err, x.heap) ELSE K(x.heap, x.val)
                   : x \in {r}} : TRUE

\* the same for the result r of a function that touches no object, in heap h
TryV(r, h, K(_)) ==
    CHOOSE y \in {IF x.err # "none" THEN Raise(x.err, h) ELSE K(x.val)
                   : x \in {r}} : TRUE

\* the value tree of a value of heap h
RECURSIVE Tree(_, _)
Tree(h, v) ==
    IF v.type = "KeyVal"
    THEN MkKeyVal(h[v.id].key, Tree(h, h[v.id].value))
    ELSE IF v.type = "Arg"
    THEN MkArg([i \in 1..Len(h[v.id].args) |-> Tree(h, h[v.id].args[i])])
    ELSE IF v.type = "list"
    THEN PyList([i \in 1..Len(h[v.id].items) |-> Tree(h, h[v.id].items[i])])
    ELSE v

\* the objects a caller builds before a call: the value tree t made of fresh
\* objects in h
RECURSIVE Build(_, _)
RECURSIVE BuildAll(_, _, _, _)
BuildAll(h, ts, i, acc) ==
    IF i > Len(ts) THEN Ok(h, acc)
    ELSE LET b == Build(h, ts[i]) IN BuildAll(b.heap, ts, i + 1, Append(acc, b.val))

Build(h, t) ==
    IF t.type = "KeyVal"
    THEN LET b == Build(h, t.value) IN
         New(b.heap, [type |-> "KeyVal", key |-> t.key, value |-> b.val])
    ELSE IF t.type = "Arg"
    THEN LET b == BuildAll(h, t.args, 1, <<>>) IN
         New(b.heap, [type |-> "Arg", args |-> b.val])
    ELSE IF t.type = "list"
    THEN LET b == BuildAll(h, t.items, 1, <<>>) IN
         New(b.heap, [type |-> "list", items |-> b.val])
    ELSE Ok(h, t)

-----------------------------------------------------------------------------
(* str.strip / str.lstrip and slicing *)

Whitespace == {" ", "\t", "\n"}

RECURSIVE lstrip(_)
lstrip(s) ==
    IF s # <<>> /\ Head(s) \in Whitespace THEN lstrip(Tail(s)) ELSE s

RECURSIVE rstrip(_)
rstrip(s) ==
    IF s # <<>> /\ s[Len(s)] \in Whitespace
    THEN rstrip(SubSeq(s, 1, Len(s) - 1)) ELSE s

strip(s) == rstrip(lstrip(s))

\* Python's clamping of a slice bound b (possibly negative) for length n
SliceBound(b, n) ==
    IF b < 0 THEN (IF b + n < 0 THEN 0 ELSE b + n)
    ELSE (IF b > n THEN n ELSE b)

\* s[lo:hi] with 0-based, end-exclusive bounds
Slice(s, lo, hi) ==
    SubSeq(s, SliceBound(lo, Len(s)) + 1, SliceBound(hi, Len(s)))

-----------------------------------------------------------------------------
(* split_at_char_outside_bracket *)

OpenBrackets == {"[", "{", "("}
CloseBrackets == {"]", "}", ")"}
Quotes == {"\"", "'"}

\* `i > 0 and not string[i-1] == "\\"` for the 0-based index i
Unescaped(string, i) == i > 0 /\ string[i] # "\\"

\* The for loop from index i on: [err, i], i the index the loop stops at
\* (the break position, or len(string) when the loop runs out).
RECURSIVE scan(_, _, _, _, _)
scan(string, split_char, i, stack, in_string) ==
    IF i >= Len(string) THEN [err |-> "none", i |-> Len(string)]
    ELSE LET char == string[i + 1] IN
         IF char \in OpenBrackets
         THEN scan(string, split_char, i + 1,
                   IF Unescaped(string, i) THEN Append(stack, char) ELSE stack,
                   in_string)
         ELSE IF char \in CloseBrackets
         THEN IF Unescaped(string, i)
              THEN IF stack = <<>>
                   THEN [err |-> "IndexError", i |-> i]
                   ELSE scan(string, split_char, i + 1,
                             SubSeq(stack, 1, Len(stack) - 1), in_string)
              ELSE scan(string, split_char, i + 1, stack, in_string)
         ELSE IF char \in Quotes
         THEN scan(string, split_char, i + 1, stack,
                   IF Unescaped(string, i) THEN ~in_string ELSE in_string)
         ELSE IF char = split_char /\ Len(stack) = 0 /\ ~in_string
         THEN [err |-> "none", i |-> i]
         ELSE scan(string, split_char, i + 1, stack, in_string)

\* string is a Python value (None or a str); the result is a list of strings
split_at_char_outside_bracket(string, split_char) ==
    IF string.type = "None" THEN Return(<<>>)
    ELSE LET s == string.s
             r == scan(s, split_char, 0, <<>>, FALSE)
         IN  IF r.err # "none" THEN Throw(r.err, <<>>)
             ELSE IF r.i < Len(s)
             THEN Return(<<strip(SubSeq(s, 1, r.i)), strip(SubSeq(s, r.i + 2, Len(s)))>>)
             ELSE Return(<<strip(s), <<>> >>)

-----------------------------------------------------------------------------
(* KeyVal.__init__, KeyVal.parse_value, Arg.__init__, Arg.parse_args *)

RECURSIVE KeyVal_init(_, _, _)
RECURSIVE Arg_init(_, _)
RECURSIVE parse_args(_, _)
RECURSIVE parse_value(_, _)
RECURSIVE update(_, _, _, _)
RECURSIVE update_value(_, _, _)
RECURSIVE parse_loop(_, _, _)
RECURSIVE init_list(_, _, _, _)

\* the while loop of parse_args: rest the remaining text args, parsed_args
\* the list so far
parse_loop(h, rest, parsed_args) ==
    IF Len(rest) = 0 THEN Ok(h, parsed_args)
    ELSE TryV(split_at_char_outside_bracket(PyStr(lstrip(rest)), ","), h,
              LAMBDA a :
         TryV(split_at_char_outside_bracket(PyStr(a[1]), "="), h,
              LAMBDA kv :
         Try(KeyVal_init(h, kv[1], IF Len(kv[2]) = 0 THEN None ELSE PyStr(kv[2])),
             LAMBDA h1, k : parse_loop(h1, a[2], Append(parsed_args, k)))))

\* parse_args(args) for a str or None: the list of the KeyVal objects
parse_args(h, a) ==
    IF a.type = "None" \/ a = PyStr(<<>>) THEN Ok(h, <<>>)
    ELSE parse_loop(h, a.s, <<>>)

\* KeyVal.parse_value(value) for a str or None
parse_value(h, value) ==
    IF value.type = "None" \/ value = PyStr(<<>>) THEN Ok(h, None)
    ELSE LET v == strip(value.s) IN
         IF v = <<>> THEN Raise("IndexError", h)
         ELSE IF v[1] = "{" /\ v[Len(v)] = "}"
         THEN Arg_init(h, PyStr(strip(Slice(v, 1, -1))))
         ELSE Arg_init(h, PyStr(v))

\* KeyVal(key, value): the new KeyVal
KeyVal_init(h, key, value) ==
    Try(IF value.type = "None" THEN Ok(h, None)
        ELSE IF value.type = "str" THEN parse_value(h, value)
        ELSE IF value.type = "Arg" THEN Ok(h, value)
        ELSE IF value.type = "KeyVal" THEN Arg_init(h, value)
        ELSE Raise("LatexParsingError", h),
        LAMBDA h1, v :
            IF v.type = "Arg" /\ Len(h1[v.id].args) = 0
            THEN New(h1, [type |-> "KeyVal", key |-> key, value |-> None])
            ELSE New(h1, [type |-> "KeyVal", key |-> key, value |-> v]))

\* the loop of Arg.__init__ over the items of a list or tuple: _args
init_list(h, items, i, acc) ==
    IF i > Len(items) THEN Ok(h, acc)
    ELSE IF items[i].type = "str"
    THEN Try(parse_args(h, items[i]), LAMBDA h1, p :
         Try(New(h1, [type |-> "list", items |-> p]), LAMBDA h2, l :
         init_list(h2, items, i + 1, Append(acc, l))))
    ELSE IF items[i].type = "KeyVal"
    THEN init_list(h, items, i + 1, Append(acc, items[i]))
    ELSE Raise("LatexParsingError", h)

\* Arg(args): the new Arg
Arg_init(h, a) ==
    IF a.type = "None" \/ a = PyStr(<<>>)
    THEN New(h, [type |-> "Arg", args |-> <<>>])
    ELSE IF a.type = "str"
    THEN Try(parse_args(h, a), LAMBDA h1, p :
             New(h1, [type |-> "Arg", args |-> p]))
    ELSE IF a.type = "KeyVal" THEN New(h, [type |-> "Arg", args |-> <<a>>])
    ELSE IF a.type = "list"
    THEN Try(init_list(h, h[a.id].items, 1, <<>>), LAMBDA h1, l :
             New(h1, [type |-> "Arg", args |-> l]))
    ELSE Raise("LatexParsingError", h)

-----------------------------------------------------------------------------
(* KeyVal._has_value, Arg._is_empty, KeyVal.__str__, Arg.__str__ *)

\* Arg._is_empty on the list _args
is_empty(a) ==
    IF Len(a) = 0 THEN Return(TRUE)
    ELSE IF \E i \in 1..Len(a) : a[i].type = "KeyVal" THEN Return(FALSE)
    ELSE Throw("LatexParsingError", FALSE)

\* x._has_value() for an element x of an Arg
has_value(x) ==
    IF x.type # "KeyVal" THEN Throw("AttributeError", FALSE)
    ELSE IF x.value.type = "None" THEN Return(FALSE)
    ELSE LET e == is_empty(x.value.args) IN
         IF e.err # "none" THEN e ELSE Return(~e.val)

\* str() of a list element of _args: the list's repr, which names object
\* addresses; one opaque character stands for it
ListRepr == <<"<list>">>

RECURSIVE Arg_str(_)
RECURSIVE KeyVal_str(_)
RECURSIVE join_str(_, _, _)

\* ", ".join([str(arg) for arg in self._args]): every str() is evaluated
\* before the join
join_str(a, i, acc) ==
    IF i > Len(a) THEN Return(acc)
    ELSE LET r == IF a[i].type = "KeyVal" THEN KeyVal_str(a[i]) ELSE Return(ListRepr) IN
         IF r.err # "none" THEN Throw(r.err, <<>>)
         ELSE join_str(a, i + 1,
                       IF i = 1 THEN r.val ELSE acc \o <<",", " ">> \o r.val)

\* Arg.__str__ on the list _args
Arg_str(a) ==
    IF Len(a) = 1 /\ a[1].type # "KeyVal" THEN Throw("AttributeError", <<>>)
    ELSE IF Len(a) = 1 /\ a[1].value.type = "None" THEN Return(a[1].key)
    ELSE join_str(a, 1, <<>>)

KeyVal_str(kv) ==
    IF kv.value.type = "None" THEN Return(kv.key)
    ELSE LET v == kv.value.args
             h == IF Len(v) = 1 THEN has_value(v[1]) ELSE Return(TRUE)
             r == Arg_str(v)
         IN  IF h.err # "none" THEN Throw(h.err, <<>>)
             ELSE IF r.err # "none" THEN Throw(r.err, <<>>)
             ELSE IF Len(v) = 1 /\ ~h.val
             THEN Return(kv.key \o <<" ", "=", " ">> \o r.val)
             ELSE Return(kv.key \o <<" ", "=", " ", "{">> \o r.val \o <<"}">>)

-----------------------------------------------------------------------------
(* Arg.__contains__, Arg.get_keyval, Arg.append, Arg.update,               *)
(* KeyVal.update_value, the value setter, Arg.remove, Arg.__delitem__      *)

\* The loops `for arg in self._args: if arg.key == key` of __contains__,
\* get_keyval, remove and __delitem__ over the list a: the position of the
\* first element whose key is key, 0 when there is none.  An element that
\* is no KeyVal has no attribute key.
RECURSIVE first_match(_, _, _, _)
first_match(h, a, key, i) ==
    IF i > Len(a) THEN Return(0)
    ELSE IF a[i].type # "KeyVal" THEN Throw("AttributeError", 0)
    ELSE IF key.type = "str" /\ h[a[i].id].key = key.s THEN Return(i)
    ELSE first_match(h, a, key, i + 1)

\* key in arg; a KeyVal as key re-enters __contains__ without end
contains(h, arg, key) ==
    IF key.type = "KeyVal" THEN Throw("RecursionError", FALSE)
    ELSE LET f == first_match(h, h[arg.id].args, key, 1) IN
         IF f.err # "none" THEN Throw(f.err, FALSE) ELSE Return(f.val > 0)

\* arg.get_keyval(key): the KeyVal it returns; the message of the error is
\* built from str(self) before the error is raised
get_keyval(h, arg, key) ==
    LET c == contains(h, arg, key) IN
    IF c.err # "none" THEN Throw(c.err, None)
    ELSE IF ~c.val
    THEN Throw(IF Arg_str(Tree(h, arg).args).err # "none"
               THEN Arg_str(Tree(h, arg).args).err ELSE "LatexParsingError", None)
    ELSE Return(h[arg.id].args[first_match(h, h[arg.id].args, key, 1).val])

\* a variant of append that puts the new entry first
append_front(h, arg, new_keyval) ==
    Ok([h EXCEPT ![arg.id].args = <<new_keyval>> \o @], None)

\* arg.append(new_keyval)
append(h, arg, new_keyval) ==
    Ok([h EXCEPT ![arg.id].args = Append(@, new_keyval)], None)

\* len(x) of a Python value
PyLen(h, x) ==
    IF x.type = "str" THEN Return(Len(x.s))
    ELSE IF x.type = "Arg" THEN Return(Len(h[x.id].args))
    ELSE IF x.type = "list" THEN Return(Len(h[x.id].items))
    ELSE Throw("TypeError", 0)

RECURSIVE merge_loop(_, _, _, _)

\* a variant of update_value that replaces the value by the new one
update_value_replace(h, kv, new_value) ==
    IF new_value.type = "None" THEN Ok([h EXCEPT ![kv.id].value = None], None)
    ELSE TryV(PyLen(h, new_value), h, LAMBDA l :
         IF l = 0 THEN Ok([h EXCEPT ![kv.id].value = None], None)
         ELSE Try(IF new_value.type = "Arg" THEN Ok(h, new_value)
                  ELSE Arg_init(h, new_value),
                  LAMBDA h1, nv : Ok([h1 EXCEPT ![kv.id].value = nv], None)))

\* a variant of update_value that leaves the value alone when the new one
\* is None or empty
update_value_keep(h, kv, new_value) ==
    IF new_value.type = "None" THEN Ok(h, None)
    ELSE TryV(PyLen(h, new_value), h, LAMBDA l :
         IF l = 0 THEN Ok(h, None)
         ELSE Try(IF new_value.type = "Arg" THEN Ok(h, new_value)
                  ELSE Arg_init(h, new_value),
                  LAMBDA h1, nv :
                      IF h1[kv.id].value.type = "None"
                      THEN Ok([h1 EXCEPT ![kv.id].value = nv], None)
                      ELSE update(h1, h1[kv.id].value, nv, None)))

\* kv.update_value(new_value)
update_value(h, kv, new_value) ==
    IF new_value.type = "None" THEN Ok([h EXCEPT ![kv.id].value = None], None)
    ELSE TryV(PyLen(h, new_value), h, LAMBDA l :
         IF l = 0 THEN Ok([h EXCEPT ![kv.id].value = None], None)
         ELSE Try(IF new_value.type = "Arg" THEN Ok(h, new_value)
                  ELSE Arg_init(h, new_value),
                  LAMBDA h1, nv :
                      IF h1[kv.id].value.type = "None"
                      THEN Ok([h1 EXCEPT ![kv.id].value = nv], None)
                      ELSE update(h1, h1[kv.id].value, nv, None)))

\* the loop `for keyval in new_args` of arg.update from position i on; the
\* iterator reads the list of new_args as it is when it gets to position i
merge_loop(h, arg, new_args, i) ==
    IF i > Len(h[new_args.id].args) THEN Ok(h, None)
    ELSE LET keyval == h[new_args.id].args[i] IN
         IF keyval.type # "KeyVal" THEN Raise("AttributeError", h)
         ELSE TryV(contains(h, arg, PyStr(h[keyval.id].key)), h, LAMBDA c :
              IF c
              THEN TryV(get_keyval(h, arg, PyStr(h[keyval.id].key)), h,
                        LAMBDA g :
                   Try(update_value(h, g, h[keyval.id].value),
                       LAMBDA h1, u : merge_loop(h1, arg, new_args, i + 1)))
              ELSE Try(append(h, arg, keyval),
                       LAMBDA h1, u : merge_loop(h1, arg, new_args, i + 1)))

\* arg.update(new_args, key)
update(h, arg, new_args, key) ==
    IF key.type # "None" /\ key # PyStr(<<>>)
    THEN TryV(contains(h, arg, key), h, LAMBDA c :
         IF c
         THEN TryV(get_keyval(h, arg, key), h, LAMBDA g :
                   update_value(h, g, new_args))
         ELSE Try(KeyVal_init(h, key.s, new_args), LAMBDA h1, k :
                  append(h1, arg, k)))
    ELSE Try(IF new_args.type = "str" THEN Arg_init(h, new_args)
             ELSE IF new_args.type = "list"
             THEN IF \E j \in 1..Len(h[new_args.id].items) :
                        h[new_args.id].items[j].type # "KeyVal"
                  THEN Raise("LatexParsingError", h)
                  ELSE Arg_init(h, new_args)
             ELSE IF new_args.type = "Arg" THEN Ok(h, new_args)
             ELSE Raise("LatexParsingError", h),
             LAMBDA h1, a : merge_loop(h1, arg, a, 1))

\* kv.value = value
set_value(h, kv, value) ==
    IF value.type = "None" THEN Ok([h EXCEPT ![kv.id].value = None], None)
    ELSE IF value.type # "str" THEN Raise("AttributeError", h)
    ELSE Try(parse_value(h, value), LAMBDA h1, v :
             Ok([h1 EXCEPT ![kv.id].value = v], None))

\* a[:i] + a[i+1:]
WithoutIndex(a, i) == Slice(a, 0, i) \o Slice(a, i + 1, Len(a))

\* arg.remove(key)
remove(h, arg, key) ==
    IF key.type = "int"
    THEN Ok([h EXCEPT ![arg.id].args = WithoutIndex(@, key.n)], None)
    ELSE TryV(first_match(h, h[arg.id].args, key, 1), h, LAMBDA f :
         IF f > 0
         THEN Ok([h EXCEPT ![arg.id].args = WithoutIndex(@, f - 1)], None)
         ELSE Ok(h, None))

\* del arg[key]
delitem(h, arg, key) ==
    IF key.type = "int"
    THEN Raise("KeyError", [h EXCEPT ![arg.id].args = WithoutIndex(@, key.n)])
    ELSE TryV(first_match(h, h[arg.id].args, key, 1), h, LAMBDA f :
         IF f > 0
         THEN Ok([h EXCEPT ![arg.id].args = WithoutIndex(@, f - 1)], None)
         ELSE Raise("KeyError", h))

-----------------------------------------------------------------------------
(* Garbage collection: the objects of h reachable from root, renumbered in *)
(* the order a depth-first walk creates them; shared objects stay shared.  *)

\* the values an object holds
Children(obj) ==
    IF obj.type = "KeyVal" THEN <<obj.value>>
    ELSE IF obj.type = "Arg" THEN obj.args
    ELSE obj.items

WithChildren(obj, c) ==
    IF obj.type = "KeyVal" THEN [obj EXCEPT !.value = c[1]]
    ELSE IF obj.type = "Arg" THEN [obj EXCEPT !.args = c]
    ELSE [obj EXCEPT !.items = c]

\* st = [heap |-> the new heap, map |-> <<old id, new id>> pairs so far]
RECURSIVE Copy(_, _, _)
RECURSIVE CopyAll(_, _, _, _, _)
CopyAll(h, vs, i, st, acc) ==
    IF i > Len(vs) THEN [st |-> st, val |-> acc]
    ELSE LET c == Copy(h, vs[i], st) IN
         CopyAll(h, vs, i + 1, c.st, Append(acc, c.val))

Copy(h, v, st) ==
    IF ~IsObject(v) THEN [st |-> st, val |-> v]
    ELSE IF \E p \in st.map : p[1] = v.id
    THEN [st |-> st,
          val |-> Ref(v.type, (CHOOSE p \in st.map : p[1] = v.id)[2])]
    ELSE LET c == CopyAll(h, Children(h[v.id]), 1, st, <<>>)
             id == Len(c.st.heap) + 1
         IN  [st |-> [heap |-> Append(c.st.heap, WithChildren(h[v.id], c.val)),
                      map |-> c.st.map \cup {<<v.id, id>>}],
              val |-> Ref(v.type, id)]

Compact(h, root) ==
    LET c == Copy(h, root, [heap |-> <<>>, map |-> {}]) IN
    [heap |-> c.st.heap, val |-> c.val]

-----------------------------------------------------------------------------
(* The object machine: one receiver Arg, built by the constructor, and the *)
(* public operations on it and on its entries.  heap is the heap after the *)
(* last call, old the heap just before it (with the call's arguments       *)
(* built), call the call, exc the exception it raised.                     *)

MaxOps == 2

Flag(k) == MkKeyVal(<<k>>, None)
Pair(k, v) == MkKeyVal(<<k>>, MkArg(<<Flag(v)>>))

\* what a caller passes to Arg(...)
CtorInputs ==
    { None, PyStr(<<>>), PyStr(<<" ">>), PyStr(<<"a">>),
      PyStr(<<"a", "=", "b">>), PyStr(<<"a", ",", "b">>),
      PyStr(<<"a", "=", "b", ",", "a">>), PyStr(<<"=", "b">>),
      PyStr(<<"a", "=", "{", "}">>), PyStr(<<"{", "a">>),
      Pair("b", "a"), MkArg(<<Flag("a")>>), PyInt(0),
      PyList(<<Flag("a"), Pair("b", "a")>>),
      PyList(<<PyStr(<<"a", "=", "b">>)>>) }

\* what a caller passes as new_args / new_value
NewArgs ==
    { None, PyStr(<<>>), PyStr(<<"b">>), PyStr(<<"a", "=", "b">>),
      PyStr(<<"b", "=", "a", ",", "b">>),
      MkArg(<<Pair("a", "b"), Flag("b")>>),
      PyList(<<Flag("a"), Pair("b", "a")>>) }

\* what a caller assigns to a value
Values ==
    {None, PyStr(<<"b">>), PyStr(<<"{", "}">>), PyStr(<<"a", "=", "b">>)}

\* what a caller passes as key
Keys == {None, PyStr(<<>>), PyStr(<<"a">>), PyStr(<<"b">>)}
RemoveKeys == {PyStr(<<"a">>), PyStr(<<"b">>), PyInt(0), PyInt(-1)}

Idle == call.op = "none"

\* the receiver's list _args
Args(h) == h[self.id].args

\* arg = Arg(x)
Init ==
    \E x \in CtorInputs :
        LET b == Build(<<>>, x)
            r == Arg_init(b.heap, b.val)
        IN  /\ r.err = "none"
            /\ heap = r.heap
            /\ self = r.val
            /\ old = b.heap
            /\ call = [op |-> "Arg", target |-> r.val, new |-> b.val, key |-> None]
            /\ exc = "none"
            /\ steps = 0
            /\ text = None
            /\ out = [op |-> "none"]

\* the call returned: the caller drops its arguments, and the objects no
\* longer reachable from the receiver are collected
Forget ==
    /\ ~Idle
    /\ LET c == Compact(heap, self) IN
       /\ heap' = c.heap
       /\ self' = c.val
    /\ old' = <<>>
    /\ call' = [op |-> "none"]
    /\ exc' = "none"
    /\ UNCHANGED <<steps, text, out>>

\* the state after a call on target that returned r
Called(op, target, b, key, r) ==
    /\ heap' = r.heap
    /\ old' = b.heap
    /\ call' = [op |-> op, target |-> target, new |-> b.val, key |-> key]
    /\ exc' = r.err
    /\ steps' = steps + 1
    /\ UNCHANGED <<self, text, out>>

\* arg.update(new_args, key)
Update(new_args, key) ==
    /\ Idle /\ steps < MaxOps
    /\ LET b == Build(heap, new_args) IN
       Called("update", self, b, key, update(b.heap, self, b.val, key))

\* arg[i].update_value(new_value)
UpdateValue(i, new_value) ==
    /\ Idle /\ steps < MaxOps
    /\ i \in 1..Len(Args(heap)) /\ Args(heap)[i].type = "KeyVal"
    /\ LET b == Build(heap, new_value) IN
       Called("update_value", Args(heap)[i], b, None,
              update_value(b.heap, Args(heap)[i], b.val))

\* arg[i].value = value
SetValue(i, value) ==
    /\ Idle /\ steps < MaxOps
    /\ i \in 1..Len(Args(heap)) /\ Args(heap)[i].type = "KeyVal"
    /\ LET b == Build(heap, value) IN
       Called("set_value", Args(heap)[i], b, None,
              set_value(b.heap, Args(heap)[i], b.val))

\* arg.append(new_keyval)
AppendKeyVal(new_keyval) ==
    /\ Idle /\ steps < MaxOps
    /\ LET b == Build(heap, new_keyval) IN
       Called("append", self, b, None, append(b.heap, self, b.val))

\* arg.remove(key)
Remove(key) ==
    /\ Idle /\ steps < MaxOps
    /\ Called("remove", self, Ok(heap, None), key, remove(heap, self, key))

\* arg[i].value.remove(key)
RemoveInValue(i, key) ==
    /\ Idle /\ steps < MaxOps
    /\ i \in 1..Len(Args(heap)) /\ Args(heap)[i].type = "KeyVal"
    /\ heap[Args(heap)[i].id].value.type = "Arg"
    /\ LET v == heap[Args(heap)[i].id].value IN
       Called("remove", v, Ok(heap, None), key, remove(heap, v, key))

\* del arg[i].value[key]
DelItemInValue(i, key) ==
    /\ Idle /\ steps < MaxOps
    /\ i \in 1..Len(Args(heap)) /\ Args(heap)[i].type = "KeyVal"
    /\ heap[Args(heap)[i].id].value.type = "Arg"
    /\ LET v == heap[Args(heap)[i].id].value IN
       Called("delitem", v, Ok(heap, None), key, delitem(heap, v, key))

Positions == 1..3

Next ==
    \/ Forget
    \/ \E x \in NewArgs, k \in Keys : Update(x, k)
    \/ \E i \in Positions, x \in NewArgs : UpdateValue(i, x)
    \/ \E i \in Positions, x \in Values : SetValue(i, x)
    \/ \E x \in {Flag("a"), Pair("b", "a")} : AppendKeyVal(x)
    \/ \E k \in RemoveKeys : Remove(k)
    \/ \E i \in Positions, k \in RemoveKeys : RemoveInValue(i, k)
    \/ \E i \in Positions, k \in RemoveKeys : DelItemInValue(i, k)

Spec == Init /\ [][Next]_vars

-----------------------------------------------------------------------------
(* The functions on text: text is the argument, out the last call on it    *)
(* and what it returned.                                                   *)

\* the strings of at most n characters of alphabet
Strings(alphabet, n) == UNION {[1..k -> alphabet] : k \in 0..n}

NoObject ==
    /\ heap = <<>>
    /\ self = None
    /\ old = <<>>
    /\ call = [op |-> "none"]
    /\ exc = "none"
    /\ steps = 0

MaxSplitLen == 4
SplitChars == {"a", ",", "=", "{", "}", "(", "'", "\\", " "}
Delimiters == {",", "="}

InitSplit ==
    /\ NoObject
    /\ text \in {None} \cup {PyStr(t) : t \in Strings(SplitChars, MaxSplitLen)}
    /\ out = [op |-> "none"]

\* split_at_char_outside_bracket(text, split_char); i is the index the
\* function's loop stopped at
Split(split_char) ==
    /\ out.op = "none"
    /\ LET r == split_at_char_outside_bracket(text, split_char) IN
       out' = [op |-> "split", split_char |-> split_char,
               err |-> r.err, val |-> r.val,
               i |-> IF text.type = "None" THEN 0
                     ELSE scan(text.s, split_char, 0, <<>>, FALSE).i]
    /\ UNCHANGED <<heap, self, old, call, exc, steps, text>>

NextSplit == \E c \in Delimiters : Split(c)

SpecSplit == InitSplit /\ [][NextSplit]_vars

MaxParseLen == 4
MaxPasses == 2
ParseChars == {"a", "b", ",", "=", "{", "}", " "}

InitParse ==
    /\ NoObject
    /\ text \in {PyStr(t) : t \in Strings(ParseChars, MaxParseLen)}
    /\ out = [op |-> "none"]

\* the value tree a call returned, None when it raised
Returned(r) == IF r.err = "none" THEN Tree(r.heap, r.val) ELSE None

\* A = Arg(text): pass 1 over text; of is the call's argument, prev the
\* argument of the call before it
ParseText ==
    /\ out.op = "none"
    /\ LET r == Arg_init(<<>>, text) IN
       out' = [op |-> "Arg", pass |-> 1, of |-> text, prev |-> None,
               err |-> r.err, val |-> Returned(r)]
    /\ UNCHANGED <<heap, self, old, call, exc, steps, text>>

\* Arg.parse_args(text)
ParseArgs ==
    /\ out.op = "none"
    /\ LET r == parse_args(<<>>, text) IN
       out' = [op |-> "parse_args", pass |-> 1, of |-> text, prev |-> None,
               err |-> r.err,
               val |-> IF r.err = "none"
                       THEN [i \in 1..Len(r.val) |-> Tree(r.heap, r.val[i])]
                       ELSE <<>>]
    /\ UNCHANGED <<heap, self, old, call, exc, steps, text>>

\* str(A) for the Arg A the last call returned
Str ==
    /\ out.op = "Arg" /\ out.err = "none"
    /\ LET r == Arg_str(out.val.args) IN
       out' = [op |-> "str", pass |-> out.pass, of |-> out.val, prev |-> out.of,
               err |-> r.err, val |-> PyStr(r.val)]
    /\ UNCHANGED <<heap, self, old, call, exc, steps, text>>

\* Arg(s) for the string s the last call returned: the next pass
ParseStr ==
    /\ out.op = "str" /\ out.err = "none" /\ out.pass < MaxPasses
    /\ LET r == Arg_init(<<>>, out.val) IN
       out' = [op |-> "Arg", pass |-> out.pass + 1, of |-> out.val,
               prev |-> out.of, err |-> r.err, val |-> Returned(r)]
    /\ UNCHANGED <<heap, self, old, call, exc, steps, text>>

NextParse == ParseText \/ ParseArgs \/ Str \/ ParseStr

SpecParse == InitParse /\ [][NextParse]_vars
-----------------------------------------------------------------------------
(* Properties of Arg.update and KeyVal.update_value, stated of the state   *)
(* a call leaves: old is the heap before it, heap the heap after it.       *)

Range(f) == {f[i] : i \in DOMAIN f}

\* the key of element v of an entry list of heap h
EntryKey(h, v) == IF v.type = "KeyVal" THEN h[v.id].key ELSE ListRepr

\* the keys of the entry list a of heap h, in order
KeysOf(h, a) == [i \in 1..Len(a) |-> EntryKey(h, a[i])]

\* the key of element x of the entry list of a value tree
TreeKey(x) == IF x.type = "KeyVal" THEN x.key ELSE ListRepr

\* the keys of the entries of the value tree t of an Arg, in order
TreeKeys(t) == [i \in 1..Len(t.args) |-> TreeKey(t.args[i])]

\* the keys of ks that are not in seen, each once, in the order in which
\* they first occur
RECURSIVE FirstNew(_, _)
FirstNew(ks, seen) ==
    IF ks = <<>> THEN <<>>
    ELSE IF Head(ks) \in seen THEN FirstNew(Tail(ks), seen)
    ELSE <<Head(ks)>> \o FirstNew(Tail(ks), seen \cup {Head(ks)})

\* the Arg the call makes of its argument new_args / new_value, as a value
\* tree: the argument itself when it is an Arg, Arg(argument) otherwise;
\* None when Arg(argument) raises
NewTree ==
    IF call.new.type = "Arg" THEN Tree(old, call.new)
    ELSE Returned(Arg_init(old, call.new))

\* the call was arg.update(new_args) without a key (merge mode)
MergeCall ==
    call.op = "update" /\ (call.key = None \/ call.key = PyStr(<<>>))

\* the call was arg.update(new_args, key) with a key (keyed mode)
KeyedCall ==
    call.op = "update" /\ call.key.type = "str" /\ call.key.s # <<>>

\* the list object V kept its entries, in their order, and after them got
\* one entry for every key of ks it did not have, in the order of ks
Accumulated(V, ks) ==
    LET before == old[V.id].args
        after == heap[V.id].args
        n == Len(before)
    IN  /\ Len(after) >= n
        /\ \A i \in 1..n : after[i] = before[i]
        /\ [i \in 1..(Len(after) - n) |-> EntryKey(heap, after[n + i])]
             = FirstNew(ks, Range(KeysOf(old, before)))

\* the keys of the sub-entries of the values of the entries of tree t whose
\* key is k, in order
RECURSIVE SubKeys(_, _, _)
SubKeys(t, k, i) ==
    IF i > Len(t.args) THEN <<>>
    ELSE IF TreeKey(t.args[i]) = k
    THEN TreeKeys(t.args[i].value) \o SubKeys(t, k, i + 1)
    ELSE SubKeys(t, k, i + 1)

\* entry i of the receiver is the one a lookup of its key finds: no entry
\* before it has the key
Found(i) ==
    \A j \in 1..(i - 1) : EntryKey(old, Args(old)[j]) # EntryKey(old, Args(old)[i])

Scalar(t) ==
    /\ t.type = "Arg" /\ Len(t.args) = 1
    /\ t.args[1].type = "KeyVal" /\ t.args[1].value = None

\* `key in arg` before the call: TRUE, FALSE, or the exception it raises
HadKey == contains(old, self, call.key)

\* the first entry of the receiver with the call's key
Entry == get_keyval(old, self, call.key).val

\* C3: update(new, key=k) with a scalar new on an Arg whose entry k has a
\* scalar value leaves entry k with the value new alone; when k is absent
\* it appends the entry k = new.
C3_KeyedOverwrites ==
    (KeyedCall /\ call.new.type = "str" /\ Scalar(NewTree) /\ HadKey.err = "none")
    => IF HadKey.val
       THEN Scalar(Tree(old, Entry).value)
            => /\ exc = "none"
               /\ Tree(heap, Entry).value = NewTree
       ELSE /\ exc = "none"
            /\ Tree(heap, self).args
                 = Append(Tree(old, self).args, MkKeyVal(call.key.s, NewTree))

\* the call returned having set the value of entry e to None and changed
\* nothing else: the receiver holds the same entries at the same positions,
\* and every other object is as it was
Cleared(e) ==
    /\ exc = "none"
    /\ heap[e.id] = [old[e.id] EXCEPT !.value = None]
    /\ Args(heap) = Args(old)
    /\ \A id \in 1..Len(old) : id # e.id => heap[id] = old[id]

EmptyValue(v) == v = None \/ v = PyStr(<<>>)

\* C4 as stated: for an Arg containing key k, update(None, key=k) or an
\* update of k with an empty value sets the value of k to None and leaves
\* the entries, their number and every other entry as they were.
C4_AnyKey ==
    /\ (/\ call.op = "update" /\ call.key.type = "str"
        /\ EmptyValue(call.new)
        /\ HadKey.err = "none" /\ HadKey.val)
       => Cleared(Entry)
    /\ (call.op = "update_value" /\ EmptyValue(call.new))
       => Cleared(call.target)

\* C4, for a key that is not the empty string: for an Arg in which
\* `k in arg` holds, update(None, key=k), update("", key=k) and
\* update_value(None) or update_value("") on an entry set the value of the
\* entry to None and leave the entries, their number and every other object
\* as they were.
C4_ClearKeepsEntry ==
    /\ (/\ KeyedCall /\ EmptyValue(call.new)
        /\ HadKey.err = "none" /\ HadKey.val)
       => Cleared(Entry)
    /\ (call.op = "update_value" /\ EmptyValue(call.new))
       => Cleared(call.target)

\* update(None, key=k) cleared a value of an entry of a receiver with more
\* entries
C4_Witness ==
    /\ KeyedCall /\ call.new = None /\ exc = "none"
    /\ HadKey.err = "none" /\ HadKey.val
    /\ old[Entry.id].value.type = "Arg"
    /\ heap[Entry.id].value = None
    /\ Len(Args(heap)) >= 2

C8_EntriesAreKeyVals ==
    \A id \in 1..Len(heap) :
        heap[id].type = "Arg"
        => \A i \in 1..Len(heap[id].args) : heap[id].args[i].type = "KeyVal"

-----------------------------------------------------------------------------
(* Properties of parsing and serialization *)

Blank(s) == \A i \in 1..Len(s) : s[i] \in Whitespace

\* C5: for an Arg A parsed from text, Arg(str(A)) returns the value tree of
\* A, and str(Arg(str(A))) is str(A).
C5_RoundTrip ==
    /\ (out.op = "Arg" /\ out.pass >= 2)
       => out.err = "none" /\ out.val = out.prev
    /\ (out.op = "str" /\ out.pass >= 2)
       => out.err = "none" /\ out.val = out.prev

\* C6: Arg(text) and Arg.parse_args(text) return no entry, and raise
\* nothing, for a text that is empty or all whitespace.
C6_BlankTextIsEmpty ==
    (out.op \in {"Arg", "parse_args"} /\ out.pass = 1 /\ Blank(text.s))
    => /\ out.err = "none"
       /\ IF out.op = "Arg" THEN out.val.args = <<>> ELSE out.val = <<>>

-----------------------------------------------------------------------------
(* Properties of split_at_char_outside_bracket *)

\* C9: for a string the splitter returns two strings without surrounding
\* whitespace, the whole trimmed string and the empty string when the
\* delimiter does not occur; for None it returns the empty list.
C9_SplitterTotal ==
    out.op = "split"
    => IF text = None THEN out.err = "none" /\ out.val = <<>>
       ELSE /\ out.err = "none"
            /\ Len(out.val) = 2
            /\ \A j \in 1..2 : strip(out.val[j]) = out.val[j]
            /\ (\A j \in 1..Len(text.s) : text.s[j] # out.split_char)
               => out.val = <<strip(text.s), <<>> >>

\* the number of brackets open before the 0-based index p of s: the
\* unescaped (, [ and { before p that no unescaped ), ] or } before p closes
RECURSIVE Depth(_, _)
Depth(s, p) ==
    IF p = 0 THEN 0
    ELSE IF p > 1 /\ s[p - 1] = "\\" THEN Depth(s, p - 1)
    ELSE IF s[p] \in OpenBrackets THEN Depth(s, p - 1) + 1
    ELSE IF s[p] \in CloseBrackets /\ Depth(s, p - 1) > 0 THEN Depth(s, p - 1) - 1
    ELSE Depth(s, p - 1)

\* C10: when the splitter returns, the position it split at is inside no
\* bracket opened before it, at index 0 or later, and, in a string without
\* quotes, no delimiter before that position is outside all brackets.
C10_NoSplitInsideBrackets ==
    (out.op = "split" /\ text # None /\ out.err = "none")
    => /\ out.i < Len(text.s) => Depth(text.s, out.i) = 0
       /\ (\A j \in 1..Len(text.s) : text.s[j] \notin Quotes)
          => \A q \in 0..(out.i - 1) :
                text.s[q + 1] = out.split_char => Depth(text.s, q) > 0
-----------------------------------------------------------------------------
(* The splitter on strings with quotes *)

MaxQuotedLen == 5
QuotedChars == {"a", "'", "(", ")", ","}

InitQuoted ==
    /\ NoObject
    /\ text \in {PyStr(t) : t \in Strings(QuotedChars, MaxQuotedLen)}
    /\ out = [op |-> "none"]

SpecQuoted == InitQuoted /\ [][NextSplit]_vars

\* s with every bracket that stands inside quotes replaced by a letter, from
\* the 0-based index i on; in_string is the splitter's flag at i
RECURSIVE Unbracket(_, _, _)
Unbracket(s, i, in_string) ==
    IF i >= Len(s) THEN <<>>
    ELSE IF s[i + 1] \in Quotes
    THEN <<s[i + 1]>> \o Unbracket(s, i + 1,
                                   IF Unescaped(s, i) THEN ~in_string ELSE in_string)
    ELSE IF in_string /\ s[i + 1] \in OpenBrackets \cup CloseBrackets
    THEN <<"a">> \o Unbracket(s, i + 1, in_string)
    ELSE <<s[i + 1]>> \o Unbracket(s, i + 1, in_string)

\* C11: brackets inside quotes are not interpreted: when the splitter
\* returns, it has split the string where it splits the same string with the
\* brackets inside quotes replaced by letters, and that split raises nothing.
C11_QuotedBracketsIgnored ==
    (out.op = "split" /\ text # None /\ out.err = "none")
    => LET r == scan(Unbracket(text.s, 0, FALSE), out.split_char, 0, <<>>, FALSE)
       IN  r.err = "none" /\ r.i = out.i

-----------------------------------------------------------------------------
(* _find_matching_bracket *)

bracketPairs == [c \in {"{", "[", "("} |-> CASE c = "{" -> "}" [] c = "[" -> "]" [] c = "(" -> ")"]

\* the loop `for i in range(1, len(string))`, i 0-based
RECURSIVE find_loop(_, _, _, _)
find_loop(string, endBracket, i, bracketCount) ==
    IF i >= Len(string) THEN Return(None)
    ELSE IF (IF string[i + 1] = string[1] THEN bracketCount + 1
             ELSE IF string[i + 1] = endBracket THEN bracketCount - 1
             ELSE bracketCount) = 0
    THEN Return(PyInt(i))
    ELSE find_loop(string, endBracket, i + 1,
                   IF string[i + 1] = string[1] THEN bracketCount + 1
                   ELSE IF string[i + 1] = endBracket THEN bracketCount - 1
                   ELSE bracketCount)

\* as find_matching_bracket, with "}" taken as the closing bracket of every opening one
find_matching_bracket_brace(string) ==
    IF Len(string.s) = 0 THEN Throw("IndexError", None)
    ELSE IF string.s[1] \notin DOMAIN bracketPairs THEN Throw("KeyError", None)
    ELSE find_loop(string.s, "}", 1, 1)

find_matching_bracket(string) ==
    IF Len(string.s) = 0 THEN Throw("IndexError", None)
    ELSE IF string.s[1] \notin DOMAIN bracketPairs THEN Throw("KeyError", None)
    ELSE find_loop(string.s, bracketPairs[string.s[1]], 1, 1)

MaxBracketLen == 4
BracketChars == {"{", "}", "[", "]", "(", "a"}

InitBracket ==
    /\ NoObject
    /\ text \in {PyStr(t) : t \in Strings(BracketChars, MaxBracketLen)}
    /\ out = [op |-> "none"]

FindMatchingBracket ==
    /\ out.op = "none"
    /\ out' = [op |-> "find"] @@ find_matching_bracket(text)
    /\ UNCHANGED <<heap, self, old, call, exc, steps, text>>

NextBracket == FindMatchingBracket

SpecBracket == InitBracket /\ [][NextBracket]_vars

\* occurrences of the character c in s at the 0-based positions 0..i
Count(s, c, i) == Cardinality({j \in 0..i : s[j + 1] = c})

\* the 0-based positions i >= 1 where the first character of s has been closed
\* as often as it was opened over 0..i
Closing(s) ==
    {i \in 1..(Len(s) - 1) : Count(s, s[1], i) = Count(s, bracketPairs[s[1]], i)}

Minimum(S) == CHOOSE i \in S : \A j \in S : i <= j

\* s is a balanced word over the three bracket pairs; stack holds the closing
\* brackets that are awaited
RECURSIVE Balanced(_, _)
Balanced(s, stack) ==
    IF s = <<>> THEN stack = <<>>
    ELSE IF Head(s) \in DOMAIN bracketPairs
    THEN Balanced(Tail(s), <<bracketPairs[Head(s)]>> \o stack)
    ELSE IF Head(s) \in {"}", "]", ")"}
    THEN stack # <<>> /\ Head(stack) = Head(s) /\ Balanced(Tail(s), Tail(stack))
    ELSE Balanced(Tail(s), stack)

Braced(s) ==
    /\ Len(s) >= 2 /\ s[1] = "{" /\ s[Len(s)] = "}"
    /\ Balanced(SubSeq(s, 2, Len(s) - 1), <<>>)

\* C12: on a string that starts with an opening bracket the bracket scanner
\* raises nothing and returns the smallest index i >= 1 where the first
\* character and its closing bracket have occurred equally often over 0..i,
\* or None when there is no such index; on "{" + inner + "}" with balanced
\* inner that is the index of the last character.
C12_MatchingBracket ==
    (out.op = "find" /\ Len(text.s) > 0 /\ text.s[1] \in DOMAIN bracketPairs)
    => /\ out.err = "none"
       /\ out.val = IF Closing(text.s) = {} THEN None
                    ELSE PyInt(Minimum(Closing(text.s)))
       /\ Braced(text.s) => out.val = PyInt(Len(text.s) - 1)

C12_Witness ==
    /\ out.op = "find"
    /\ Braced(text.s)
    /\ \E j \in 2..(Len(text.s) - 1) : text.s[j] \in {"{", "["}
    /\ out.val = PyInt(Len(text.s) - 1)

-----------------------------------------------------------------------------
(* Arg.__getitem__ and Arg.get_keyval                                      *)

\* arg[key]: self._args[key] for an int, else the value of the first element
\* whose key is key
getitem(h, arg, key) ==
    IF key.type = "int"
    THEN IF key.n >= Len(h[arg.id].args) \/ key.n < 0 - Len(h[arg.id].args)
         THEN Throw("IndexError", None)
         ELSE Return(h[arg.id].args[IF key.n < 0 THEN key.n + Len(h[arg.id].args) + 1
                                    ELSE key.n + 1])
    ELSE IF first_match(h, h[arg.id].args, key, 1).err # "none"
    THEN Throw(first_match(h, h[arg.id].args, key, 1).err, None)
    ELSE IF first_match(h, h[arg.id].args, key, 1).val = 0 THEN Return(None)
    ELSE Return(h[h[arg.id].args[first_match(h, h[arg.id].args, key, 1).val].id].value)

LookupKeys == {PyStr(<<"a">>), PyStr(<<"b">>)}

\* a call on the receiver that returned r and left the heap alone
Looked(op, key, r) ==
    /\ call' = [op |-> op, target |-> self, new |-> None, key |-> key, val |-> r.val]
    /\ exc' = r.err
    /\ old' = heap
    /\ UNCHANGED <<heap, self, steps, text, out>>

\* arg[key]
GetItem(key) ==
    /\ Idle
    /\ Looked("getitem", key, getitem(heap, self, key))

\* arg.get_keyval(key)
GetKeyVal(key) ==
    /\ Idle
    /\ Looked("get_keyval", key, get_keyval(heap, self, key))

NextLookup ==
    \/ Forget
    \/ \E x \in {Flag("a"), Pair("b", "a"), Pair("a", "b")} : AppendKeyVal(x)
    \/ \E k \in LookupKeys \cup {PyInt(0), PyInt(-2)} : GetItem(k)
    \/ \E k \in LookupKeys : GetKeyVal(k)

SpecLookup == Init /\ [][NextLookup]_vars

\* the positions of the entries of the receiver with the key of the last call
Matches == {i \in 1..Len(Args(heap)) : EntryKey(heap, Args(heap)[i]) = call.key.s}

FirstEntry == Args(heap)[CHOOSE i \in Matches : \A j \in Matches : i <= j]

\* C13: arg[k] with a string k raises nothing and returns the value of the
\* first entry with key k, None when there is none; arg.get_keyval(k) returns
\* the first entry with key k and raises LatexParsingError when there is
\* none; both leave the Arg as it was.
C13_Lookup ==
    /\ (call.op = "getitem" /\ call.key.type = "str")
       => /\ exc = "none"
          /\ call.val = IF Matches = {} THEN None ELSE heap[FirstEntry.id].value
          /\ heap = old
    /\ call.op = "get_keyval"
       => /\ IF Matches = {} THEN exc = "LatexParsingError"
             ELSE exc = "none" /\ call.val = FirstEntry
          /\ heap = old

-----------------------------------------------------------------------------
(* KeyVal.__str__ and Arg.__str__ on objects of every shape: text is the    *)
(* value tree of the object                                                *)

MaxEntries == 2

\* the Args of flags
FlagArgs == {MkArg(a) : a \in Strings({Flag("a"), Flag("b")}, MaxEntries)}

\* the elements of _args: KeyVals without a value, with an Arg of flags
\* (possibly emptied by remove) as value, and a list as Arg(["a"]) stores it
Elements ==
    {MkKeyVal(<<k>>, v) : k \in {"a", "b"}, v \in {None} \cup FlagArgs}
    \cup {PyList(<<Flag("a")>>)}

StrArgs == {MkArg(a) : a \in Strings(Elements, MaxEntries)}

InitStr ==
    /\ NoObject
    /\ text \in StrArgs \cup {MkKeyVal(<<"k">>, v) : v \in {None} \cup StrArgs}
    /\ out = [op |-> "none"]

\* str(arg)
ArgStr ==
    /\ out.op = "none" /\ text.type = "Arg"
    /\ out' = [op |-> "str"] @@ Arg_str(text.args)
    /\ UNCHANGED <<heap, self, old, call, exc, steps, text>>

\* str(keyval)
KeyValStr ==
    /\ out.op = "none" /\ text.type = "KeyVal"
    /\ out' = [op |-> "str"] @@ KeyVal_str(text)
    /\ UNCHANGED <<heap, self, old, call, exc, steps, text>>

NextStr == ArgStr \/ KeyValStr

SpecStr == InitStr /\ [][NextStr]_vars

\* an entry without a value
Valueless(x) == x.type = "KeyVal" /\ x.value = None

\* the strings of ss joined by ", "
RECURSIVE Joined(_)
Joined(ss) ==
    IF ss = <<>> THEN <<>>
    ELSE IF Len(ss) = 1 THEN ss[1]
    ELSE ss[1] \o <<",", " ">> \o Joined(Tail(ss))

\* the renderings of the elements of the list a
Renderings(a) ==
    [i \in 1..Len(a) |-> IF a[i].type = "KeyVal" THEN KeyVal_str(a[i]).val ELSE ListRepr]

\* C14: when str returns, str(KeyVal) is the key for a value None, key = v
\* for a value of exactly one entry v without a value, and key = {str(value)}
\* otherwise; str(Arg) is the key of its entry when that is its only entry
\* and has no value, and otherwise its entries' renderings joined by ", ".
C14_Bracing ==
    (out.op = "str" /\ out.err = "none")
    => IF text.type = "KeyVal"
       THEN out.val =
            IF text.value = None THEN text.key
            ELSE IF Len(text.value.args) = 1 /\ Valueless(text.value.args[1])
            THEN text.key \o <<" ", "=", " ">> \o text.value.args[1].key
            ELSE text.key \o <<" ", "=", " ", "{">>
                 \o Joined(Renderings(text.value.args)) \o <<"}">>
       ELSE out.val =
            IF Len(text.args) = 1 /\ Valueless(text.args[1]) THEN text.args[1].key
            ELSE Joined(Renderings(text.args))

-----------------------------------------------------------------------------
(* CommandBase and Environment: self is the Environment object, its lists   *)
(* as sequences; old is the object before the last call                     *)

\* `if not isinstance(argument, Arg): argument = Arg(argument)`: the value
\* tree of the Arg
AsArg(argument) ==
    IF argument.type = "Arg" THEN Return(argument)
    ELSE IF Arg_init(<<>>, argument).err # "none"
    THEN Throw(Arg_init(<<>>, argument).err, None)
    ELSE Return(Returned(Arg_init(<<>>, argument)))

\* list[index] = x
SetAt(list, index, x) ==
    IF index >= Len(list) \/ index < 0 - Len(list) THEN Throw("IndexError", list)
    ELSE Return([list EXCEPT ![IF index < 0 THEN index + Len(list) + 1 ELSE index + 1] = x])

\* list.insert(index, x)
InsertAt(list, index, x) ==
    SubSeq(list, 1, SliceBound(index, Len(list))) \o <<x>>
    \o SubSeq(list, SliceBound(index, Len(list)) + 1, Len(list))

\* del list[index]
DelAt(list, index) ==
    IF index >= Len(list) \/ index < 0 - Len(list) THEN Throw("IndexError", list)
    ELSE Return(WithoutIndex(list, IF index < 0 THEN index + Len(list) + 1 ELSE index + 1))

\* Environment(name): no arguments, no content
Environment_init ==
    [type |-> "Environment", arguments |-> <<>>, arguments_optional |-> <<>>,
     content |-> <<>>]

\* add_argument and add_optional_argument
add_argument(e, argument, optional) ==
    IF AsArg(argument).err # "none" THEN Throw(AsArg(argument).err, e)
    ELSE Return([e EXCEPT !.arguments = Append(@, AsArg(argument).val),
                          !.arguments_optional = Append(@, optional)])

\* a variant of set_argument that leaves the flag of the slot alone
set_argument_slot(e, argument, index, optional) ==
    IF index >= Len(e.arguments) THEN Throw("IndexError", e)
    ELSE IF AsArg(argument).err # "none" THEN Throw(AsArg(argument).err, e)
    ELSE IF SetAt(e.arguments, index, AsArg(argument).val).err # "none"
    THEN Throw(SetAt(e.arguments, index, AsArg(argument).val).err, e)
    ELSE Return([e EXCEPT !.arguments = SetAt(@, index, AsArg(argument).val).val])

set_argument(e, argument, index, optional) ==
    IF index >= Len(e.arguments) THEN Throw("IndexError", e)
    ELSE IF AsArg(argument).err # "none" THEN Throw(AsArg(argument).err, e)
    ELSE IF SetAt(e.arguments, index, AsArg(argument).val).err # "none"
    THEN Throw(SetAt(e.arguments, index, AsArg(argument).val).err, e)
    ELSE Return([e EXCEPT !.arguments = SetAt(@, index, AsArg(argument).val).val,
                          !.arguments_optional = SetAt(@, index, optional).val])

insert_argument(e, argument, index, optional) ==
    IF index > Len(e.arguments) THEN Throw("IndexError", e)
    ELSE IF AsArg(argument).err # "none" THEN Throw(AsArg(argument).err, e)
    ELSE Return([e EXCEPT !.arguments = InsertAt(@, index, AsArg(argument).val),
                          !.arguments_optional = InsertAt(@, index, optional)])

\* the three branches of remove_argument on one of its two lists
remove_slices(list, index) ==
    IF index = 0 THEN Slice(list, 1, Len(list))
    ELSE IF index = Len(list) - 1 THEN Slice(list, 0, -1)
    ELSE Slice(list, 0, index) \o Slice(list, index + 1, Len(list))

remove_argument(e, index) ==
    IF index >= Len(e.arguments) THEN Throw("IndexError", e)
    ELSE Return([e EXCEPT !.arguments = remove_slices(@, index),
                          !.arguments_optional = remove_slices(@, index)])

add_content(e, content) ==
    IF content.type = "list"
    THEN Return([e EXCEPT !.content = @ \o content.items])
    ELSE Return([e EXCEPT !.content = Append(@, content)])

set_content(e, content, index) ==
    IF index >= Len(e.content) THEN Throw("IndexError", e)
    ELSE IF SetAt(e.content, index, content).err # "none"
    THEN Throw(SetAt(e.content, index, content).err, e)
    ELSE Return([e EXCEPT !.content = SetAt(@, index, content).val])

insert_content(e, content, index) ==
    IF index > Len(e.content) THEN Throw("IndexError", e)
    ELSE Return([e EXCEPT !.content = InsertAt(@, index, content)])

remove_content(e, index) ==
    IF index >= Len(e.content) THEN Throw("IndexError", e)
    ELSE IF DelAt(e.content, index).err # "none"
    THEN Throw(DelAt(e.content, index).err, e)
    ELSE Return([e EXCEPT !.content = DelAt(@, index).val])

MaxItems == 2
Indexes == (0 - MaxItems - 1)..(MaxItems + 1)
Arguments == {PyStr(<<"a">>), MkArg(<<Flag("b")>>)}
Contents == {PyStr(<<"x">>), PyStr(<<"y">>)}

InitCommand ==
    /\ heap = <<>>
    /\ self = Environment_init
    /\ old = Environment_init
    /\ call = [op |-> "Environment"]
    /\ exc = "none"
    /\ steps = 0
    /\ text = None
    /\ out = [op |-> "none"]

\* the state after the call op with index on the Environment returned r
Mutated(op, index, r) ==
    /\ self' = r.val
    /\ old' = self
    /\ call' = [op |-> op, index |-> index]
    /\ exc' = r.err
    /\ UNCHANGED <<heap, steps, text, out>>

AddArgument(argument, optional) ==
    /\ Len(self.arguments) < MaxItems
    /\ Mutated("add_argument", Len(self.arguments), add_argument(self, argument, optional))

SetArgument(argument, index, optional) ==
    /\ Len(self.arguments) <= MaxItems
    /\ Mutated("set_argument", index, set_argument(self, argument, index, optional))

InsertArgument(argument, index, optional) ==
    /\ Len(self.arguments) < MaxItems
    /\ Mutated("insert_argument", index, insert_argument(self, argument, index, optional))

\* a removal can lengthen the list; lists longer than MaxItems are left alone
RemoveArgument(index) ==
    /\ Len(self.arguments) <= MaxItems
    /\ Mutated("remove_argument", index, remove_argument(self, index))

AddContent(content) ==
    /\ Len(self.content) + (IF content.type = "list" THEN Len(content.items) ELSE 1)
          <= MaxItems
    /\ Mutated("add_content", Len(self.content), add_content(self, content))

SetContent(content, index) ==
    /\ Len(self.content) <= MaxItems
    /\ Mutated("set_content", index, set_content(self, content, index))

InsertContent(content, index) ==
    /\ Len(self.content) < MaxItems
    /\ Mutated("insert_content", index, insert_content(self, content, index))

RemoveContent(index) ==
    /\ Len(self.content) <= MaxItems
    /\ Mutated("remove_content", index, remove_content(self, index))

NextCommand ==
    \/ \E a \in Arguments, o \in BOOLEAN : AddArgument(a, o)
    \/ \E a \in Arguments, i \in Indexes, o \in BOOLEAN : SetArgument(a, i, o)
    \/ \E a \in Arguments, i \in Indexes, o \in BOOLEAN : InsertArgument(a, i, o)
    \/ \E i \in Indexes : RemoveArgument(i)
    \/ \E c \in Contents \cup {PyList(<<PyStr(<<"y">>), PyStr(<<"x">>)>>)} : AddContent(c)
    \/ \E c \in Contents, i \in Indexes : SetContent(c, i)
    \/ \E c \in Contents, i \in Indexes : InsertContent(c, i)
    \/ \E i \in Indexes : RemoveContent(i)

SpecCommand == InitCommand /\ [][NextCommand]_vars

\* the list the last call works on, before the call and after it
ListBefore == IF call.op \in {"set_content", "insert_content", "remove_content"}
              THEN old.content ELSE old.arguments
ListAfter == IF call.op \in {"set_content", "insert_content", "remove_content"}
             THEN self.content ELSE self.arguments

\* the index of the last call is a position of the list, counted from the
\* front or, when negative, from the back; for an insert, an insertion point
ValidIndex ==
    /\ call.index >= 0 - Len(ListBefore)
    /\ call.index < Len(ListBefore)
                    + (IF call.op \in {"insert_argument", "insert_content"} THEN 1 ELSE 0)

\* C15: a set, insert or remove of an argument or of content with an index
\* that is no position of the list raises IndexError and leaves the three
\* lists as they were.
C15_BadIndexRaises ==
    (/\ call.op \in {"set_argument", "insert_argument", "remove_argument",
                     "set_content", "insert_content", "remove_content"}
     /\ ~ValidIndex)
    => exc = "IndexError" /\ self = old

\* the 1-based position the index of the last call names
Position == IF call.index < 0 THEN call.index + Len(ListBefore) + 1 ELSE call.index + 1

-----------------------------------------------------------------------------
(* Length: magnitudes are rationals [num, den] in lowest terms, the value   *)
(* the code's float arithmetic approximates                                *)

RECURSIVE GCD(_, _)
GCD(a, b) == IF b = 0 THEN a ELSE GCD(b, a % b)

Rat(n, d) == [num |-> n \div GCD(n, d), den |-> d \div GCD(n, d)]

\* x * p / q
Scale(x, p, q) ==
    Rat((x.num \div GCD(x.num, q)) * (p \div GCD(p, x.den)),
        (x.den \div GCD(p, x.den)) * (q \div GCD(x.num, q)))

UnitNames == {"PT", "MM", "CM", "IN", "BP", "PC", "DD", "EX", "EM"}
Unit(name) == [type |-> "Unit", name |-> name]

\* the branches of _value_as_pt: the factor as <<numerator, denominator>>
PtRatio(name) ==
    CASE name = "PT" -> <<1, 1>>
      [] name = "MM" -> <<7227, 2540>>
      [] name = "CM" -> <<7227, 254>>
      [] name = "IN" -> <<7227, 100>>
      [] name = "BP" -> <<803, 800>>
      [] name = "PC" -> <<12, 1>>
      [] name = "DD" -> <<1238, 1157>>
      [] name = "EX" -> <<35271, 8192>>
      [] name = "EM" -> <<655361, 65536>>

\* the branches of _pt_to_unit
UnitRatio(name) ==
    CASE name = "PT" -> <<1, 1>>
      [] name = "MM" -> <<2540, 7227>>
      [] name = "CM" -> <<254, 7227>>
      [] name = "IN" -> <<100, 7227>>
      [] name = "BP" -> <<800, 803>>
      [] name = "PC" -> <<1, 12>>
      [] name = "DD" -> <<1157, 1238>>
      [] name = "EX" -> <<8192, 35271>>
      [] name = "EM" -> <<65536, 655361>>

\* as value_as_pt, with the factor of CM for MM
value_as_pt_cm(l) ==
    IF l.unit.name = "MM" THEN Scale(l.value, 7227, 254)
    ELSE Scale(l.value, PtRatio(l.unit.name)[1], PtRatio(l.unit.name)[2])

\* self._value_as_pt()
value_as_pt(l) == Scale(l.value, PtRatio(l.unit.name)[1], PtRatio(l.unit.name)[2])

\* Unit(unit.upper()) for a str: no member of Unit has a str as value
\* Length._pt_to_unit(value, unit)
pt_to_unit(value, unit) ==
    IF unit.type = "str" THEN Throw("ValueError", None)
    ELSE Return(Scale(value, UnitRatio(unit.name)[1], UnitRatio(unit.name)[2]))

\* Length(value, unit) for a number value
Length_init(h, value, unit) ==
    IF unit.type = "None" THEN New(h, [type |-> "Length", value |-> value, unit |-> Unit("CM")])
    ELSE IF unit.type = "str" THEN Raise("ValueError", h)
    ELSE New(h, [type |-> "Length", value |-> value, unit |-> unit])

\* as convert_to, converting the receiver in place
convert_to_in_place(h, l, unit) ==
    IF unit.type = "str" THEN Raise("ValueError", h)
    ELSE IF h[l.id].unit = unit THEN Ok(h, l)
    ELSE Ok([h EXCEPT ![l.id].value = pt_to_unit(value_as_pt(h[l.id]), unit).val,
                      ![l.id].unit = unit], l)

\* l.convert_to(unit)
convert_to(h, l, unit) ==
    IF unit.type = "str" THEN Raise("ValueError", h)
    ELSE IF h[l.id].unit = unit THEN Ok(h, l)
    ELSE Length_init(h, pt_to_unit(value_as_pt(h[l.id]), unit).val, unit)

MaxConversions == 2
Magnitudes == {1, 2}
Units == {Unit(n) : n \in UnitNames}

\* self = Length(m, unit)
InitLength ==
    \E m \in Magnitudes, unit \in Units \cup {None} :
        /\ heap = Length_init(<<>>, Rat(m, 1), unit).heap
        /\ self = Length_init(<<>>, Rat(m, 1), unit).val
        /\ old = <<>>
        /\ call = [op |-> "Length"]
        /\ exc = "none"
        /\ steps = 0
        /\ text = None
        /\ out = [op |-> "none"]

\* l.convert_to(unit) for a Length l made so far; self is the receiver
ConvertTo(l, unit) ==
    /\ steps < MaxConversions
    /\ heap' = convert_to(heap, l, unit).heap
    /\ self' = l
    /\ old' = heap
    /\ call' = [op |-> "convert_to", unit |-> unit, val |-> convert_to(heap, l, unit).val]
    /\ exc' = convert_to(heap, l, unit).err
    /\ steps' = steps + 1
    /\ UNCHANGED <<text, out>>

NextLength ==
    \E i \in 1..Len(heap), unit \in Units \cup {PyStr(<<"m", "m">>)} :
        ConvertTo(Ref("Length", i), unit)

SpecLength == InitLength /\ [][NextLength]_vars

\* C17: convert_to leaves every Length made before the call, the receiver
\* among them, with its magnitude and unit; for a target Unit equal to the
\* receiver's it returns the receiver, for another it returns a Length that
\* did not exist before the call and has the target unit.
C17_ConvertKeepsReceiver ==
    call.op = "convert_to"
    => /\ \A i \in 1..Len(old) : heap[i] = old[i]
       /\ call.unit \in Units
          => /\ exc = "none"
             /\ IF old[self.id].unit = call.unit THEN call.val = self
                ELSE /\ call.val.id \notin 1..Len(old)
                     /\ heap[call.val.id].unit = call.unit

C17_Witness ==
    /\ call.op = "convert_to"
    /\ call.unit \in Units
    /\ old[self.id].unit # call.unit
    /\ heap[call.val.id].value # old[self.id].value
    /\ heap[self.id] = old[self.id]

\* C18: the factor to points and the factor from points of every unit
\* multiply to 1; every Length obtained from the first one by conversions
\* has its magnitude again whenever it has its unit, and converting to the
\* unit a Length has returns its magnitude.
C18_RoundTrip ==
    /\ \A n \in UnitNames, m \in Magnitudes :
          /\ PtRatio(n)[1] = UnitRatio(n)[2] /\ PtRatio(n)[2] = UnitRatio(n)[1]
          /\ pt_to_unit(value_as_pt([value |-> Rat(m, 1), unit |-> Unit(n)]), Unit(n)).val
             = Rat(m, 1)
    /\ \A i \in 1..Len(heap) :
          heap[i].unit = heap[1].unit => heap[i].value = heap[1].value
    /\ (call.op = "convert_to" /\ exc = "none" /\ call.unit = old[self.id].unit)
       => heap[call.val.id].value = old[self.id].value

C18_Witness ==
    /\ Len(heap) >= 3
    /\ heap[2].unit # heap[1].unit
    /\ heap[3].unit = heap[1].unit
    /\ heap[3].value = heap[1].value
    /\ heap[2].value # heap[1].value

-----------------------------------------------------------------------------
(* Sharing of objects between the receiver and the arguments of a call      *)

\* the KeyVal and Arg objects of heap h that the value v is or holds
RECURSIVE Nodes(_, _)
Nodes(h, v) ==
    IF ~IsObject(v) THEN {}
    ELSE (IF v.type \in {"KeyVal", "Arg"} THEN {v.id} ELSE {})
         \cup UNION {Nodes(h, Children(h[v.id])[i]) : i \in 1..Len(Children(h[v.id]))}

\* C19: after A.update(B) with an Arg or a list of KeyVals B, and after
\* update_value(V) on an entry of A with an Arg V, no KeyVal or Arg object of
\* A is an object of B or V.
C19_NoSharedNode ==
    (/\ exc = "none"
     /\ \/ call.op = "update" /\ call.new.type \in {"Arg", "list"}
        \/ call.op = "update_value" /\ call.new.type = "Arg")
    => Nodes(heap, self) \cap Nodes(heap, call.new) = {}

-----------------------------------------------------------------------------
(* Calls with a value of a type the classes do not accept                   *)

\* an int, and a list of an int
Unsupported == {PyInt(0), PyList(<<PyInt(0)>>)}

\* Arg(x): the receiver is not involved
NewArg(x) ==
    /\ Idle /\ out.op = "none"
    /\ out' = [op |-> "Arg", of |-> x,
               err |-> Arg_init(Build(heap, x).heap, Build(heap, x).val).err]
    /\ UNCHANGED <<heap, self, old, call, exc, steps, text>>

\* KeyVal(key, x)
NewKeyVal(key, x) ==
    /\ Idle /\ out.op = "none"
    /\ out' = [op |-> "KeyVal", of |-> x,
               err |-> KeyVal_init(Build(heap, x).heap, key, Build(heap, x).val).err]
    /\ UNCHANGED <<heap, self, old, call, exc, steps, text>>

NextReject ==
    \/ Forget
    \/ \E x \in Unsupported, k \in Keys : Update(x, k)
    \/ \E x \in Unsupported : NewArg(x)
    \/ \E x \in {PyInt(0)} : NewKeyVal(<<"a">>, x)

SpecReject == Init /\ [][NextReject]_vars

\* C20: Arg(x), KeyVal(k, x), update(x) and update(x, key=k) with an x of an
\* unsupported type raise LatexParsingError, and the updates leave the
\* receiver as it was.
C20_RejectedAtomically ==
    /\ out.op \in {"Arg", "KeyVal"} => out.err = "LatexParsingError"
    /\ (call.op = "update" /\ Tree(old, call.new) \in Unsupported)
       => exc = "LatexParsingError" /\ Tree(heap, self) = Tree(old, self)

-----------------------------------------------------------------------------
(* KeyVal.parse_value on value texts with braces *)

MaxValueLen == 4
ValueChars == {"{", "}", "a", ","}

InitValue ==
    /\ NoObject
    /\ text \in {PyStr(t) : t \in Strings(ValueChars, MaxValueLen)}
    /\ out = [op |-> "none"]

\* KeyVal.parse_value(text)
ParseValue ==
    /\ out.op = "none"
    /\ out' = [op |-> "parse_value", err |-> parse_value(<<>>, text).err,
               val |-> Returned(parse_value(<<>>, text))]
    /\ UNCHANGED <<heap, self, old, call, exc, steps, text>>

NextValue == ParseValue

SpecValue == InitValue /\ [][NextValue]_vars

\* what Arg(s) does: the error it raises and the value tree it returns
Parsed(s) == [err |-> Arg_init(<<>>, PyStr(s)).err,
              val |-> Returned(Arg_init(<<>>, PyStr(s)))]

\* C21: for a value text whose leading "{" is closed by its last character
\* parse_value does what Arg does on the text between the two; for a value
\* text whose leading "{" is closed earlier it does what Arg does on the
\* whole text.
C21_StripsEnclosingBraces ==
    (out.op = "parse_value" /\ Len(text.s) > 0 /\ text.s[1] = "{"
     /\ Closing(text.s) # {})
    => [err |-> out.err, val |-> out.val]
       = IF Minimum(Closing(text.s)) = Len(text.s) - 1
         THEN Parsed(SubSeq(text.s, 2, Len(text.s) - 1))
         ELSE Parsed(text.s)

-----------------------------------------------------------------------------
(* lapyx.output: self holds the module's globals, old the globals before    *)
(* the last call; out records which of no_export and _setID was called     *)
(* last and whether an export has been suppressed                          *)

\* str(output) for an int
int_str(n) == <<CASE n = 0 -> "0" [] n = 1 -> "1" [] OTHER -> "n">>

no_export(m) == Return([m EXCEPT !.should_export = FALSE])

\* as export, without the test of should_export
export_always(m, output) ==
    IF m.current_ID = "" THEN Throw("Exception", m)
    ELSE IF m.current_ID \notin DOMAIN m.output_dict THEN Throw("KeyError", m)
    ELSE Return([m EXCEPT !.output_dict[m.current_ID] =
                     Append(@, IF output.type = "str" THEN output
                               ELSE PyStr(int_str(output.n)))])

export(m, output) ==
    IF ~m.should_export THEN Return(m)
    ELSE IF m.current_ID = "" THEN Throw("Exception", m)
    ELSE IF m.current_ID \notin DOMAIN m.output_dict THEN Throw("KeyError", m)
    ELSE Return([m EXCEPT !.output_dict[m.current_ID] =
                     Append(@, IF output.type = "str" THEN output
                               ELSE PyStr(int_str(output.n)))])

\* _setID(ID): should_export is set before the test of the ID
setID(m, ID) ==
    IF ID \in DOMAIN m.output_dict
    THEN Throw("Exception", [m EXCEPT !.should_export = TRUE])
    ELSE Return([m EXCEPT !.should_export = TRUE,
                          !.output_dict = (ID :> <<>>) @@ @,
                          !.current_ID = ID])

MaxCalls == 5
IDs == {"p", "q"}
Outputs == {PyStr(<<"x">>), PyInt(0)}

\* the globals after the import of the module and _init
InitOutput ==
    /\ heap = <<>>
    /\ self = [type |-> "output", output_dict |-> <<>>, current_ID |-> "",
               should_export |-> TRUE]
    /\ old = <<>>
    /\ call = [op |-> "_init"]
    /\ exc = "none"
    /\ steps = 0
    /\ text = None
    /\ out = [op |-> "output", last |-> "none", suppressed |-> FALSE]

NoExport ==
    /\ steps < MaxCalls
    /\ self' = no_export(self).val
    /\ old' = self
    /\ call' = [op |-> "no_export"]
    /\ exc' = "none"
    /\ steps' = steps + 1
    /\ out' = [out EXCEPT !.last = "no_export"]
    /\ UNCHANGED <<heap, text>>

Export(output) ==
    /\ steps < MaxCalls
    /\ self' = export(self, output).val
    /\ old' = self
    /\ call' = [op |-> "export", output |-> output]
    /\ exc' = export(self, output).err
    /\ steps' = steps + 1
    /\ out' = [out EXCEPT !.suppressed = @ \/ out.last = "no_export"]
    /\ UNCHANGED <<heap, text>>

SetID(ID) ==
    /\ steps < MaxCalls
    /\ self' = setID(self, ID).val
    /\ old' = self
    /\ call' = [op |-> "_setID", ID |-> ID]
    /\ exc' = setID(self, ID).err
    /\ steps' = steps + 1
    /\ out' = [out EXCEPT !.last = "_setID"]
    /\ UNCHANGED <<heap, text>>

NextOutput ==
    \/ NoExport
    \/ \E output \in Outputs : Export(output)
    \/ \E ID \in IDs : SetID(ID)

SpecOutput == InitOutput /\ [][NextOutput]_vars

\* C22: an export after no_export and before the next _setID call leaves
\* output_dict as it was; an export after a _setID call and before the next
\* no_export raises nothing, appends one item to the list of the current ID
\* and leaves the lists of the other IDs as they were.
C22_NoExportUntilSetID ==
    call.op = "export"
    => /\ out.last = "no_export" => self.output_dict = old.output_dict
       /\ out.last = "_setID"
          => /\ exc = "none"
             /\ DOMAIN self.output_dict = DOMAIN old.output_dict
             /\ self.current_ID \in DOMAIN self.output_dict
             /\ \A ID \in DOMAIN self.output_dict :
                   IF ID = self.current_ID
                   THEN /\ Len(self.output_dict[ID]) = Len(old.output_dict[ID]) + 1
                        /\ SubSeq(self.output_dict[ID], 1, Len(old.output_dict[ID]))
                           = old.output_dict[ID]
                   ELSE self.output_dict[ID] = old.output_dict[ID]

C22_Witness ==
    /\ call.op = "export"
    /\ out.suppressed
    /\ out.last = "_setID"
    /\ Len(self.output_dict[self.current_ID]) = 1
    /\ Cardinality(DOMAIN self.output_dict) = 2

-----------------------------------------------------------------------------
(* The while loop of Arg.parse_args, one iteration at a time: out holds the *)
(* remaining text, the list so far, and both as they were one iteration ago *)

\* as iterate, keeping the text as the remainder
iterate_keep(h, rest, parsed_args) ==
    TryV(split_at_char_outside_bracket(PyStr(lstrip(rest)), ","), h, LAMBDA a :
    TryV(split_at_char_outside_bracket(PyStr(a[1]), "="), h, LAMBDA kv :
    Try(KeyVal_init(h, kv[1], IF Len(kv[2]) = 0 THEN None ELSE PyStr(kv[2])),
        LAMBDA h1, k : Ok(h1, [rest |-> rest, parsed_args |-> Append(parsed_args, k)]))))

\* one pass through the body of the loop
iterate(h, rest, parsed_args) ==
    TryV(split_at_char_outside_bracket(PyStr(lstrip(rest)), ","), h, LAMBDA a :
    TryV(split_at_char_outside_bracket(PyStr(a[1]), "="), h, LAMBDA kv :
    Try(KeyVal_init(h, kv[1], IF Len(kv[2]) = 0 THEN None ELSE PyStr(kv[2])),
        LAMBDA h1, k : Ok(h1, [rest |-> a[2], parsed_args |-> Append(parsed_args, k)]))))

\* Arg.parse_args(text) is called
EnterLoop ==
    /\ out.op = "none"
    /\ out' = [op |-> "parse_args", rest |-> text.s, parsed_args |-> <<>>,
               prev |-> None, err |-> "none", done |-> text.s = <<>>]
    /\ UNCHANGED <<heap, self, old, call, exc, steps, text>>

\* `while len(args) > 0` holds: the body runs
Iterate ==
    /\ out.op = "parse_args" /\ ~out.done /\ out.err = "none"
    /\ Len(out.rest) > 0
    /\ heap' = iterate(heap, out.rest, out.parsed_args).heap
    /\ out' = IF iterate(heap, out.rest, out.parsed_args).err # "none"
              THEN [out EXCEPT !.err = iterate(heap, out.rest, out.parsed_args).err]
              ELSE [out EXCEPT
                      !.rest = iterate(heap, out.rest, out.parsed_args).val.rest,
                      !.parsed_args = iterate(heap, out.rest, out.parsed_args).val.parsed_args,
                      !.prev = [rest |-> out.rest, parsed_args |-> out.parsed_args]]
    /\ UNCHANGED <<self, old, call, exc, steps, text>>

\* `while len(args) > 0` fails: return parsed_args
LeaveLoop ==
    /\ out.op = "parse_args" /\ ~out.done /\ out.err = "none"
    /\ Len(out.rest) = 0
    /\ out' = [out EXCEPT !.done = TRUE]
    /\ UNCHANGED <<heap, self, old, call, exc, steps, text>>

NextArgs == EnterLoop \/ Iterate \/ LeaveLoop

MaxArgsLen == 3

InitArgs ==
    /\ NoObject
    /\ text \in {PyStr(t) : t \in Strings(ParseChars, MaxArgsLen)}
    /\ out = [op |-> "none"]

\* the interpreter runs the loop on
SpecArgs == InitArgs /\ [][NextArgs]_vars /\ WF_vars(NextArgs)

\* the remainder r was cut from the text s right of some position
CutFrom(r, s) == \E j \in 1..(Len(s) + 1) : r = strip(SubSeq(s, j, Len(s)))

LoopShortens ==
    (out.op = "parse_args" /\ out.prev # None)
    => /\ Len(out.rest) < Len(out.prev.rest)
       /\ CutFrom(out.rest, out.prev.rest)
       /\ Len(out.parsed_args) = Len(out.prev.parsed_args) + 1
       /\ SubSeq(out.parsed_args, 1, Len(out.prev.parsed_args)) = out.prev.parsed_args

LoopBounded ==
    out.op = "parse_args"
    => /\ Len(out.parsed_args) <= Len(text.s) - Len(out.rest)
       /\ out.done => (out.rest = <<>>
                       /\ [err |-> "none", val |-> [i \in 1..Len(out.parsed_args) |->
                                                      Tree(heap, out.parsed_args[i])]]
                          = [err |-> parse_args(<<>>, text).err,
                             val |-> [i \in 1..Len(parse_args(<<>>, text).val) |->
                                        Tree(parse_args(<<>>, text).heap,
                                             parse_args(<<>>, text).val[i])]])

\* C23: every iteration of the loop of parse_args leaves a remaining text
\* that is shorter and was cut from the right of the one before, and appends
\* one entry after the entries so far; the entries never outnumber the
\* characters consumed; the call returns, with an empty remainder, or raises.
C23_ParseArgsTerminates ==
    /\ [](LoopShortens /\ LoopBounded)
    /\ <>(out.op = "parse_args" /\ (out.done \/ out.err # "none"))

C23_Witness ==
    /\ out.op = "parse_args" /\ out.done
    /\ Len(out.parsed_args) = 2
    /\ heap[out.parsed_args[1].id].key = <<"a">>
    /\ heap[out.parsed_args[2].id].key = <<"b">>


-----------------------------------------------------------------------------
(* Receivers that hold a key more than once, under update, remove and del  *)

\* what a caller passes to Arg(...)
DupInputs ==
    { PyStr(<<"a">>), PyStr(<<"a", ",", "a">>),
      PyStr(<<"a", "=", "b", ",", "a">>),
      PyStr(<<"b", ",", "a", "=", "b", ",", "a", "=", "{", "b", "}">>),
      PyList(<<Pair("b", "a"), Flag("a"), Pair("b", "b")>>),
      PyList(<<PyStr(<<"a", "=", "b">>), Flag("a"), Flag("a")>>) }

\* arg = Arg(x)
InitEntries ==
    \E x \in DupInputs :
        LET b == Build(<<>>, x)
            r == Arg_init(b.heap, b.val)
        IN  /\ r.err = "none"
            /\ heap = r.heap
            /\ self = r.val
            /\ old = b.heap
            /\ call = [op |-> "Arg", target |-> r.val, new |-> b.val, key |-> None]
            /\ exc = "none"
            /\ steps = 0
            /\ text = None
            /\ out = [op |-> "none"]

\* del arg[key]
DelItem(key) ==
    /\ Idle /\ steps < MaxOps
    /\ Called("delitem", self, Ok(heap, None), key, delitem(heap, self, key))

NextEntries ==
    \/ Forget
    \/ \E x \in NewArgs, k \in Keys : Update(x, k)
    \/ \E x \in {Flag("a"), Pair("b", "a")} : AppendKeyVal(x)
    \/ \E k \in RemoveKeys : Remove(k)
    \/ \E k \in RemoveKeys : DelItem(k)

SpecEntries == InitEntries /\ [][NextEntries]_vars

\* the positions at which the receiver held key k before the call
Holders(k) == {i \in 1..Len(Args(old)) : EntryKey(old, Args(old)[i]) = k}

\* entry i of the receiver is the object it was, with the value it had
Untouched(i, j) ==
    /\ j \in 1..Len(Args(heap))
    /\ Args(heap)[j] = Args(old)[i]
    /\ Tree(heap, Args(heap)[j]) = Tree(old, Args(old)[i])

\* the receiver lost entry f and nothing else
TookOut(f) ==
    /\ Len(Args(heap)) = Len(Args(old)) - 1
    /\ \A i \in 1..Len(Args(old)) :
           /\ i < f => Untouched(i, i)
           /\ i > f => Untouched(i, i - 1)

\* C24: when the receiver holds key k at several positions, remove(k) and
\* del [k] take out the first entry with key k and nothing else; update
\* with key k, and update in merge mode with new_args that hold k, change at
\* most the first entry with key k: every later entry with key k stays the
\* object it was, at its position, with the value it had.
C24_FirstMatchOnly ==
    \A k \in {<<"a">>, <<"b">>} :
        (call.op \in {"update", "remove", "delitem"} /\ Cardinality(Holders(k)) >= 2)
        => /\ (call.op \in {"remove", "delitem"} /\ call.key = PyStr(k))
                => TookOut(Minimum(Holders(k)))
           /\ ((KeyedCall /\ call.key = PyStr(k))
               \/ (MergeCall /\ NewTree # None /\ k \in Range(TreeKeys(NewTree))))
                => \A i \in Holders(k) \ {Minimum(Holders(k))} : Untouched(i, i)

\* the same of the receivers whose entries are KeyVal objects, each held at
\* one position only
FirstMatchOnlyOfKeyVals ==
    (call.op \in {"update", "remove", "delitem"}
     /\ \E i \in 1..Len(Args(old)) :
            \/ Args(old)[i].type # "KeyVal"
            \/ \E j \in 1..(i - 1) : Args(old)[j] = Args(old)[i])
    \/ C24_FirstMatchOnly


\* the call was given a position of the receiver, or a key the receiver held
ValidPosition ==
    call.key.type = "int" /\ 0 - Len(Args(old)) <= call.key.n /\ call.key.n < Len(Args(old))
PresentKey == call.key.type = "str" /\ Holders(call.key.s) # {}

\* C25: del arg[key] with a valid integer position or with a string key the
\* receiver holds takes one entry out and returns; it raises KeyError only
\* for a string key the receiver does not hold, leaving the entries as
\* they were.
C25_KeyErrorIffNothingRemoved ==
    call.op = "delitem"
    => /\ (ValidPosition \/ PresentKey)
            => exc = "none" /\ Len(Args(heap)) = Len(Args(old)) - 1
       /\ exc = "KeyError"
            => call.key.type = "str" /\ ~PresentKey /\ Args(heap) = Args(old)


\* the list a without its element at position f
Without(a, f) == [j \in 1..(Len(a) - 1) |-> IF j < f THEN a[j] ELSE a[j + 1]]

\* C26: after arg.remove(key), for an integer or a string key, the entries
\* of the receiver are the entries it had, in their order, with at most one
\* of them taken out.
C26_RemoveTakesAtMostOne ==
    call.op = "remove"
    => \/ Args(heap) = Args(old)
       \/ \E f \in 1..Len(Args(old)) : Args(heap) = Without(Args(old), f)


-----------------------------------------------------------------------------
(* Macro.__str__ and the two argument lists of CommandBase: every argument  *)
(* is passed with the flag that goes with it, so that a slot tells the flag *)
(* it must stand next to                                                    *)

\* the name of the macro
MacroName == <<"m">>

\* "".join([f"[{a}]" if o else f"{{{a}}}" for a, o in zip(arguments, optional)])
\* from pair i on; zip stops at the end of the shorter list
RECURSIVE zip_join(_, _, _)
zip_join(arguments, optional, i) ==
    IF i > Len(arguments) \/ i > Len(optional) THEN Return(<<>>)
    ELSE IF Arg_str(arguments[i].args).err # "none"
    THEN Throw(Arg_str(arguments[i].args).err, <<>>)
    ELSE IF zip_join(arguments, optional, i + 1).err # "none"
    THEN zip_join(arguments, optional, i + 1)
    ELSE Return((IF optional[i]
                 THEN <<"[">> \o Arg_str(arguments[i].args).val \o <<"]">>
                 ELSE <<"{">> \o Arg_str(arguments[i].args).val \o <<"}">>)
                \o zip_join(arguments, optional, i + 1).val)

\* Macro.__str__
Macro_str(e) ==
    IF zip_join(e.arguments, e.arguments_optional, 1).err # "none"
    THEN zip_join(e.arguments, e.arguments_optional, 1)
    ELSE Return(<<"\\">> \o MacroName
                \o zip_join(e.arguments, e.arguments_optional, 1).val)

\* the arguments a caller passes, each with its flag optional
Tagged ==
    { <<PyStr(<<"a">>), TRUE>>, <<MkArg(<<Flag("b")>>), FALSE>>,
      <<PyStr(<<"a", "=", "b">>), FALSE>>, <<PyInt(0), TRUE>> }

NextArguments ==
    \/ \E p \in Tagged : AddArgument(p[1], p[2])
    \/ \E p \in Tagged, i \in Indexes : SetArgument(p[1], i, p[2])
    \/ \E p \in Tagged, i \in Indexes : InsertArgument(p[1], i, p[2])
    \/ \E i \in Indexes : RemoveArgument(i)

SpecArguments == InitCommand /\ [][NextArguments]_vars

\* the flag the argument a was passed with
TagOf(a) == \E p \in Tagged : p[2] /\ AsArg(p[1]).err = "none" /\ AsArg(p[1]).val = a

\* the rendering of the slots from slot i on, each with the flag of its
\* argument
RECURSIVE Slots(_, _)
Slots(arguments, i) ==
    IF i > Len(arguments) THEN <<>>
    ELSE (IF TagOf(arguments[i])
          THEN <<"[">> \o Arg_str(arguments[i].args).val \o <<"]">>
          ELSE <<"{">> \o Arg_str(arguments[i].args).val \o <<"}">>)
         \o Slots(arguments, i + 1)

\* C27: after construction and after every add, set, insert or remove of an
\* argument, raising or not, the list of arguments and the list of flags
\* have the same length, the flag at every position is the flag its argument
\* was passed with, and Macro.__str__ renders every argument in order,
\* [..] when it is optional and {..} when it is required.
C27_SlotsAligned ==
    /\ Len(self.arguments) = Len(self.arguments_optional)
    /\ \A i \in 1..Len(self.arguments) :
           self.arguments_optional[i] = TagOf(self.arguments[i])
    /\ Macro_str(self) = Return(<<"\\">> \o MacroName \o Slots(self.arguments, 1))

C27_Witness ==
    /\ call.op = "set_argument" /\ exc = "IndexError"
    /\ Macro_str(self).val = <<"\\", "m", "{", "b", "}", "[", "a", "]">>


-----------------------------------------------------------------------------
(* The same text merged into an Arg again and again: text is the text, out  *)
(* the value tree of the receiver before the last update                    *)

MaxMergeLen == 3

\* what a caller passes to Arg(...)
MergeReceivers ==
    { None, PyStr(<<"a">>), PyStr(<<"a", "=", "b">>), PyStr(<<"b", ",", "a">>),
      PyStr(<<"a", "=", "b", ",", "a">>),
      PyStr(<<"a", "=", "{", "b", "=", "a", ",", "b", "}">>),
      PyList(<<Flag("a"), Pair("b", "a")>>) }

\* texts that give a key a value in braces
NestedTexts ==
    { <<"a", "=", "{", "b", "}">>, <<"a", "=", "{", "b", "=", "a", "}">>,
      <<"a", "=", "{", "b", ",", "a", "}">>,
      <<"a", "=", "{", "b", ",", "b", "=", "a", "}">> }

\* arg = Arg(x), and a text
InitMerge ==
    /\ \E x \in MergeReceivers :
        LET b == Build(<<>>, x)
            r == Arg_init(b.heap, b.val)
        IN  /\ r.err = "none"
            /\ heap = r.heap
            /\ self = r.val
            /\ old = b.heap
            /\ call = [op |-> "Arg", target |-> r.val, new |-> b.val, key |-> None]
    /\ text \in {PyStr(t) : t \in Strings(ParseChars, MaxMergeLen) \cup NestedTexts}
    /\ exc = "none"
    /\ steps = 0
    /\ out = [op |-> "none"]

\* arg.update(text)
Merge ==
    /\ steps < MaxPasses
    /\ heap' = update(heap, self, text, None).heap
    /\ exc' = update(heap, self, text, None).err
    /\ old' = heap
    /\ call' = [op |-> "update", target |-> self, new |-> text, key |-> None]
    /\ out' = [op |-> "update", before |-> Tree(heap, self), raised |-> exc]
    /\ steps' = steps + 1
    /\ UNCHANGED <<self, text>>

NextMerge == Merge

SpecMerge == InitMerge /\ [][NextMerge]_vars

\* C28: a second arg.update(t) with the text t of the first leaves the
\* receiver with the tree of keys and values the first left.
C28_MergeIdempotent ==
    steps >= 2 => Tree(heap, self) = out.before


-----------------------------------------------------------------------------
(* EnumEx.__eq__ and EnumEx.__ne__ on the members of Unit: self is the      *)
(* member, text the raw value it is compared with, out the last comparison *)

\* the value of a member of Unit
UnitValue(name) ==
    CASE name = "PT" -> 0 [] name = "MM" -> 1 [] name = "CM" -> 2
      [] name = "IN" -> 3 [] name = "BP" -> 4 [] name = "PC" -> 5
      [] name = "DD" -> 6 [] name = "EX" -> 7 [] name = "EM" -> 8

\* the name of a member of Unit, as characters
UnitName(name) ==
    CASE name = "PT" -> <<"P", "T">> [] name = "MM" -> <<"M", "M">>
      [] name = "CM" -> <<"C", "M">> [] name = "IN" -> <<"I", "N">>
      [] name = "BP" -> <<"B", "P">> [] name = "PC" -> <<"P", "C">>
      [] name = "DD" -> <<"D", "D">> [] name = "EX" -> <<"E", "X">>
      [] name = "EM" -> <<"E", "M">>

\* str.lower()
lower(s) ==
    [i \in 1..Len(s) |->
        CASE s[i] = "P" -> "p" [] s[i] = "T" -> "t" [] s[i] = "M" -> "m"
          [] s[i] = "C" -> "c" [] s[i] = "I" -> "i" [] s[i] = "N" -> "n"
          [] s[i] = "B" -> "b" [] s[i] = "D" -> "d" [] s[i] = "E" -> "e"
          [] s[i] = "X" -> "x" [] OTHER -> s[i]]

\* e == other
EnumEx_eq(e, other) ==
    IF other.type = "Unit" THEN UnitValue(e.name) = UnitValue(other.name)
    ELSE IF other.type = "int" THEN UnitValue(e.name) = other.n
    ELSE IF other.type = "str" THEN lower(UnitName(e.name)) = lower(other.s)
    ELSE FALSE

\* e != other: the value of e against other itself; an int and a str are
\* never equal
EnumEx_ne(e, other) ==
    IF other.type = "Unit" THEN UnitValue(e.name) # UnitValue(other.name)
    ELSE IF other.type = "int" THEN UnitValue(e.name) # other.n
    ELSE TRUE

MaxRaw == 9

\* the raw values a member is compared with
RawValues ==
    {PyInt(n) : n \in -1..MaxRaw}
    \cup {PyStr(s) : s \in {<<>>, <<"m", "m">>, <<"M", "M">>, <<"M", "m">>,
                             <<"c", "m">>, <<"p", "t">>, <<"P", "T">>,
                             <<"e", "x">>, <<"1">>, <<"m">>}}

InitCompare ==
    /\ self \in Units
    /\ text \in RawValues
    /\ heap = <<>> /\ old = <<>> /\ call = [op |-> "none"] /\ exc = "none"
    /\ steps = 0
    /\ out = [op |-> "none"]

\* self == text
Eq ==
    /\ out' = [op |-> "__eq__", val |-> EnumEx_eq(self, text)]
    /\ UNCHANGED <<heap, self, old, call, exc, steps, text>>

\* self != text
Ne ==
    /\ out' = [op |-> "__ne__", val |-> EnumEx_ne(self, text)]
    /\ UNCHANGED <<heap, self, old, call, exc, steps, text>>

NextCompare == Eq \/ Ne

SpecCompare == InitCompare /\ [][NextCompare]_vars

\* C29: for a member e and a raw integer or string x, e == x is true for
\* the integer that is the value of e and for the strings that are the name
\* of e in any case and for nothing else, and e != x is true when e == x
\* is false and false when it is true.
C29_NeNegatesEq ==
    /\ out.op = "__eq__"
       => out.val = (\/ text.type = "int" /\ text.n = UnitValue(self.name)
                     \/ text.type = "str" /\ Len(text.s) = 2
                        /\ \A i \in 1..2 : lower(<<text.s[i]>>) = lower(<<UnitName(self.name)[i]>>))
    /\ out.op = "__ne__" => out.val = ~EnumEx_eq(self, text)

\* the same of == alone, and of != for integers
EqAsStated ==
    /\ out.op = "__eq__"
       => out.val = (\/ text.type = "int" /\ text.n = UnitValue(self.name)
                     \/ text.type = "str" /\ Len(text.s) = 2
                        /\ \A i \in 1..2 : lower(<<text.s[i]>>) = lower(<<UnitName(self.name)[i]>>))
    /\ (out.op = "__ne__" /\ text.type = "int") => out.val = ~EnumEx_eq(self, text)


-----------------------------------------------------------------------------
(* Arg.__contains__, one frame at a time: out is the call `key in arg`, its *)
(* depth the number of frames of __contains__ on the stack, val the boolean *)
(* it returned once returned is set                                         *)

\* the frames the interpreter allows (sys.getrecursionlimit(), 1000, in
\* the interpreter)
RecursionLimit == 3

\* what a caller asks for
MemberKeys ==
    { PyStr(<<>>), PyStr(<<"a">>), PyStr(<<"b">>),
      Flag("a"), Flag("b"), Pair("b", "a") }

\* `key in arg` is called
Contains(key) ==
    /\ out.op = "none"
    /\ out' = [op |-> "__contains__", key |-> key, depth |-> 1,
               returned |-> FALSE, val |-> FALSE]
    /\ call' = [op |-> "__contains__", target |-> self, new |-> None, key |-> key]
    /\ old' = heap
    /\ UNCHANGED <<heap, self, exc, steps, text>>

\* `if isinstance(key, KeyVal): return key in self`: the same call again,
\* one frame deeper, until the interpreter refuses another frame
Reenter ==
    /\ out.op = "__contains__" /\ ~out.returned /\ exc = "none"
    /\ out.key.type = "KeyVal"
    /\ IF out.depth < RecursionLimit
       THEN out' = [out EXCEPT !.depth = @ + 1] /\ exc' = exc
       ELSE out' = out /\ exc' = "RecursionError"
    /\ UNCHANGED <<heap, self, old, call, steps, text>>

\* the loop over self._args, and the return
Scan ==
    /\ out.op = "__contains__" /\ ~out.returned /\ exc = "none"
    /\ out.key.type # "KeyVal"
    /\ exc' = contains(heap, self, out.key).err
    /\ out' = IF contains(heap, self, out.key).err = "none"
              THEN [out EXCEPT !.returned = TRUE,
                               !.val = contains(heap, self, out.key).val]
              ELSE out
    /\ UNCHANGED <<heap, self, old, call, steps, text>>

NextContains ==
    \/ \E key \in MemberKeys : Contains(key)
    \/ Reenter
    \/ Scan

\* the interpreter runs a call on
SpecContains == Init /\ [][NextContains]_vars /\ WF_vars(NextContains)

\* C30: every `x in arg`, for a string x and for a KeyVal x, returns a
\* boolean after finitely many steps.
C30_MembershipTerminates ==
    (out.op = "__contains__") ~> (out.op = "__contains__" /\ out.returned)

\* the same of the calls with a string, on a receiver whose entries are
\* KeyVal objects
StringMembershipTerminates ==
    (/\ out.op = "__contains__" /\ out.key.type = "str"
     /\ \A i \in 1..Len(Args(heap)) : Args(heap)[i].type = "KeyVal")
    ~> (out.op = "__contains__" /\ out.returned)
====
